---------------------------- MODULE Spec2Model ----------------------------
(***************************************************************************)
(* Four-bar linkage analyser: the position solver (solveLinkage), the      *)
(* trajectory sampler (computeTrajectory) and the React application state  *)
(* that drives them (App, ControlPanel).                                   *)
(*                                                                         *)
(* Numbers.  The program computes in IEEE doubles; the model computes in   *)
(* integers:                                                               *)
(*   - lengths (r1, r2, r3, r4, r6) are integers counting quarter units,   *)
(*     so the default 1, 2, 3.5, 4 is 4, 8, 14, 16;                        *)
(*   - angles are integers counting degrees, on the sampler's 2-degree     *)
(*     grid;                                                               *)
(*   - cos and sin of a grid angle are an exact rational point <<p, s, q>> *)
(*     of the unit circle (p^2 + s^2 = q^2) next to the true one, so that  *)
(*     joint A lies exactly on the crank circle and the distance tests of  *)
(*     the solver are decided exactly; inside one call of the solver every *)
(*     coordinate is an integer counting 1/q of a quarter unit;            *)
(*   - NaN is one distinguished value that every arithmetic operation      *)
(*     propagates and every comparison answers FALSE on.                   *)
(***************************************************************************)
EXTENDS Integers, Sequences, FiniteSets, TLC

VARIABLES
    config,          \* App: the LinkageConfig held in state
    assemblyMode,    \* App: 1 (open) or -1 (crossed)
    isPlaying,       \* App: the playing flag
    animationSpeed,  \* App: the speed multiplier, in tenths
    lastTime,        \* App: lastTimeRef.current is defined
    request,         \* App: the number of animation frame callbacks pending
    refLive,         \* App: requestRef.current is the id of a pending callback
    queue,           \* App: the setConfig updates not rendered yet
    solution,        \* App: the memoized pose; the solver's result
    trajectory,      \* App: the memoized trajectory
    recomputed,      \* App: the last render called computeTrajectory
    table,           \* SolutionTable: the rows of the last render
    params,          \* the URL search parameters the page was loaded with
    pc,              \* sampler: position in computeTrajectory
    t2,              \* sampler: the loop variable
    data,            \* sampler: the array being built
    calls,           \* sampler: number of solveLinkage calls so far
    lastCall         \* sampler: the arguments of the last solveLinkage call

vars == <<config, assemblyMode, isPlaying, animationSpeed, lastTime, request,
          refLive, queue, solution, trajectory, recomputed, table, params, pc,
          t2, data, calls, lastCall>>

---------------------------------------------------------------------------
(* Numbers *)

\* The value the program writes as NaN (src/App.tsx:232) and parseFloat
\* returns for text that is no number.
NaN == -999999

IsNaN(x) == x = NaN

Abs(x) == IF x < 0 THEN -x ELSE x

Max(x, y) == IF x > y THEN x ELSE y

\* n / m rounded to the nearest integer, m > 0.
RoundDiv(n, m) == (n + m \div 2) \div m

\* F applied to the value of v, with v evaluated once.
Bind(v, F(_)) == CHOOSE y \in {F(z) : z \in {v}} : TRUE

RECURSIVE SqrtSearch(_, _)
\* Newton's iteration from above: g stays at or above the root and stops on it.
SqrtSearch(n, g) ==
    Bind((g + n \div g) \div 2,
         LAMBDA y : IF y >= g THEN g ELSE SqrtSearch(n, y))

\* Math.sqrt on a non-negative integer, rounded down.
Sqrt(n) == Bind(n, LAMBDA m : IF m = 0 THEN 0 ELSE SqrtSearch(m, 46340))

\* sqrt(n2) > s, sqrt(n2) < s and sqrt(n2) = 0 decided exactly.
SqrtGt(n2, s) == s < 0 \/ n2 > s * s
SqrtLt(n2, s) == s > 0 /\ n2 < s * s

---------------------------------------------------------------------------
(* Math.cos and Math.sin *)

\* The rational unit vectors of 0, 2, ..., 90 degrees: entry k + 1 is
\* <<p, s, q>> with p/q next to cos(2k) and s/q next to sin(2k).
UnitTable ==
  << <<1000, 0, 1000>>, <<924, 43, 925>>, <<840, 58, 842>>, <<900, 95, 905>>,
     <<920, 129, 929>>, <<525, 92, 533>>, <<714, 152, 730>>, <<828, 205, 853>>,
     <<960, 280, 1000>>, <<880, 285, 925>>, <<840, 306, 894>>, <<925, 372, 997>>,
     <<520, 231, 569>>, <<880, 429, 979>>, <<870, 464, 986>>, <<780, 451, 901>>,
     <<810, 504, 954>>, <<720, 483, 867>>, <<703, 504, 865>>, <<741, 580, 941>>,
     <<735, 616, 959>>, <<720, 650, 970>>, <<572, 555, 797>>, <<555, 572, 797>>,
     <<650, 720, 970>>, <<616, 735, 959>>, <<580, 741, 941>>, <<504, 703, 865>>,
     <<483, 720, 867>>, <<504, 810, 954>>, <<451, 780, 901>>, <<464, 870, 986>>,
     <<429, 880, 979>>, <<231, 520, 569>>, <<372, 925, 997>>, <<306, 840, 894>>,
     <<285, 880, 925>>, <<280, 960, 1000>>, <<205, 828, 853>>, <<152, 714, 730>>,
     <<92, 525, 533>>, <<129, 920, 929>>, <<95, 900, 905>>, <<58, 840, 842>>,
     <<43, 924, 925>>, <<0, 1000, 1000>> >>

\* The grid angle a degree count falls on (odd degrees fall on the even one
\* below).
OnGrid(deg) == 2 * (deg \div 2)

\* <<p, s, q>> for a grid angle 0 <= w < 360: by quadrant.
UnitVector(w) ==
    IF w <= 90 THEN UnitTable[w \div 2 + 1]
    ELSE IF w <= 180
    THEN Bind(UnitTable[(180 - w) \div 2 + 1], LAMBDA u : <<-u[1], u[2], u[3]>>)
    ELSE IF w <= 270
    THEN Bind(UnitTable[(w - 180) \div 2 + 1], LAMBDA u : <<-u[1], -u[2], u[3]>>)
    ELSE Bind(UnitTable[(360 - w) \div 2 + 1], LAMBDA u : <<u[1], -u[2], u[3]>>)

\* <<p, s, q>> with p/q = Math.cos(toRad(deg)), s/q = Math.sin(toRad(deg)):
\* periodic in 360 degrees.
CosSin(deg) == UnitVector(OnGrid(deg) % 360)

RECURSIVE AngleSearch(_, _, _, _)
\* The largest table index k in lo..hi whose direction is not past (x, y),
\* x, y >= 0: y * p_k - x * s_k >= 0.
AngleSearch(y, x, lo, hi) ==
    IF lo >= hi THEN lo
    ELSE Bind((lo + hi + 1) \div 2,
              LAMBDA mid :
                IF y * UnitTable[mid + 1][1] - x * UnitTable[mid + 1][2] >= 0
                THEN AngleSearch(y, x, mid, hi)
                ELSE AngleSearch(y, x, lo, mid - 1))

\* The angle of (x, y) from the x axis for x, y >= 0, cut to the grid.
FirstQuadrant(y, x) == 2 * AngleSearch(y, x, 0, 45)

\* toDeg(Math.atan2(y, x)) on the grid: the direction of (x, y) measured from
\* the x axis in its quadrant, cut to the grid angle below; atan2(0, 0) is 0.
Atan2Deg(y, x) ==
    IF x = 0 /\ y = 0 THEN 0
    ELSE Bind(FirstQuadrant(Abs(y), Abs(x)),
              LAMBDA phi :
                IF y >= 0 THEN (IF x >= 0 THEN phi ELSE 180 - phi)
                ELSE (IF x >= 0 THEN -phi ELSE phi - 180))

---------------------------------------------------------------------------
(* utils/math: solveLinkage *)

\* A coordinate counted in 1/q of a quarter unit, as the pose reports it: in
\* thousandths of a quarter unit.
ToOut(x, q) == IF IsNaN(x) THEN NaN ELSE RoundDiv(x * 1000, q)

\* d is positive but below what d2 resolves: A is off the pivot (r1, 0) by the
\* residue of Math.sin alone.
Grazing(A) == A.d2 = 0 /\ A.res # 0

\* d <= s in place of d < s.
DistLe(A, s) == s >= 0 /\ A.d2 <= s * A.q * s * A.q /\ ~Grazing(A)

\* d > s and d < s for a length s, decided exactly on d2.
DistGt(A, s) == IF Grazing(A) THEN s <= 0 ELSE SqrtGt(A.d2, s * A.q)
DistLt(A, s) == SqrtLt(A.d2, s * A.q)

\* The check without its d > r3 + r4 test.
AssemblyBrokenNoReach(A, r3, r4) ==
    /\ ~IsNaN(A.d2)
    /\ \/ /\ ~IsNaN(r3) /\ ~IsNaN(r4)
          /\ DistLt(A, Abs(r3 - r4))
       \/ (A.d2 = 0 /\ ~Grazing(A))

\* The check with d >= r3 + r4 in place of d > r3 + r4.
AssemblyBrokenStrict(A, r3, r4) ==
    /\ ~IsNaN(A.d2)
    /\ \/ /\ ~IsNaN(r3) /\ ~IsNaN(r4)
          /\ \/ DistGt(A, r3 + r4)
             \/ A.d2 = (r3 + r4) * A.q * (r3 + r4) * A.q
             \/ DistLt(A, Abs(r3 - r4))
       \/ (A.d2 = 0 /\ ~Grazing(A))

\* if (d > r3 + r4 || d < Math.abs(r3 - r4) || d === 0); a comparison with a
\* NaN operand is false.
AssemblyBroken(A, r3, r4) ==
    /\ ~IsNaN(A.d2)
    /\ \/ /\ ~IsNaN(r3) /\ ~IsNaN(r4)
          /\ \/ DistGt(A, r3 + r4)
             \/ DistLt(A, Abs(r3 - r4))
       \/ (A.d2 = 0 /\ ~Grazing(A))

\* The first candidate whatever the mode.
FirstBranch(mode, first, second) == first

\* const Bx = assemblyMode === 1 ? x3_1 : x3_2 (and By alike).
SelectBranch(mode, first, second) ==
    IF mode = 1 THEN first ELSE second

\* Every pose named open.
AlwaysOpen(mode) == "open"

\* mode: assemblyMode === 1 ? 'open' : 'crossed'
ModeName(mode) == IF mode = 1 THEN "open" ELSE "crossed"

\* Math.sin(toRad(deg)) of a full turn is not 0 but a residue of the rounding
\* of pi (-2.4e-16 at 360, -4.9e-16 at 720, the opposite at -360 and -720),
\* while Math.cos is exactly 1. The sign of that residue; 0 where the model's
\* sin carries the sign itself.
SinResidue(deg) ==
    IF OnGrid(deg) # 0 /\ OnGrid(deg) % 360 = 0
    THEN (IF deg > 0 THEN -1 ELSE 1)
    ELSE 0

\* Joint A and its distance to B* = (r1, 0): Ax, Ay, r1 and d2 = d^2, counted
\* in 1/q (d2 in 1/q^2) with q the denominator of cos and sin of theta2; res
\* is the sign of the program's Ay where the model's Ay is 0.
CrankJoint(cfg) ==
    IF IsNaN(cfg.theta2)
    THEN [q |-> 1, Ax |-> NaN, Ay |-> NaN, Bsx |-> cfg.r1, d2 |-> NaN,
          res |-> 0]
    ELSE Bind(CosSin(cfg.theta2),
              LAMBDA u :
                [q |-> u[3],
                 res |-> IF IsNaN(cfg.r2) THEN 0
                         ELSE (IF cfg.r2 > 0 THEN SinResidue(cfg.theta2)
                               ELSE IF cfg.r2 < 0 THEN -SinResidue(cfg.theta2)
                               ELSE 0),
                 Ax |-> IF IsNaN(cfg.r2) THEN NaN ELSE cfg.r2 * u[1],
                 Ay |-> IF IsNaN(cfg.r2) THEN NaN ELSE cfg.r2 * u[2],
                 Bsx |-> IF IsNaN(cfg.r1) THEN NaN ELSE cfg.r1 * u[3],
                 d2 |-> IF IsNaN(cfg.r2) \/ IsNaN(cfg.r1) THEN NaN
                        ELSE (cfg.r2 * u[1] - cfg.r1 * u[3])
                               * (cfg.r2 * u[1] - cfg.r1 * u[3])
                             + (cfg.r2 * u[2]) * (cfg.r2 * u[2])])

\* An invalid pose with Ax and Ay blanked as well.
BrokenPoseBlank(A, mode) ==
    [Ax |-> NaN, Ay |-> NaN,
     Bx |-> NaN, By |-> NaN, Cx |-> NaN, Cy |-> NaN,
     theta3 |-> NaN, theta4 |-> NaN,
     isValid |-> FALSE, mode |-> ModeName(mode)]

\* The pose returned when the assembly check fails.
BrokenPose(A, mode) ==
    [Ax |-> ToOut(A.Ax, A.q), Ay |-> ToOut(A.Ay, A.q),
     Bx |-> NaN, By |-> NaN, Cx |-> NaN, Cy |-> NaN,
     theta3 |-> NaN, theta4 |-> NaN,
     isValid |-> FALSE, mode |-> ModeName(mode)]

\* The pose returned past the check when d, r3 or r4 is NaN: every value
\* computed from them is NaN.
UndefinedPose(A, mode) ==
    [Ax |-> ToOut(A.Ax, A.q), Ay |-> ToOut(A.Ay, A.q),
     Bx |-> NaN, By |-> NaN, Cx |-> NaN, Cy |-> NaN,
     theta3 |-> NaN, theta4 |-> NaN,
     isValid |-> TRUE, mode |-> ModeName(mode)]

\* const a = (r3 ** 2 - r4 ** 2 + d2) / (2 * d)
FootDistance(cfg, A, d) ==
    RoundDiv(cfg.r3 * cfg.r3 * A.q * A.q - cfg.r4 * cfg.r4 * A.q * A.q + A.d2,
             2 * d)

\* No half chord: B on the line of centres.
HalfChordZero(cfg, A, d) == 0

\* const h = Math.sqrt(Math.max(0, r3 ** 2 - a ** 2)). With a as above,
\* r3^2 - a^2 is ((r3 + r4)^2 - d2) * (d2 - (r3 - r4)^2) / (4 * d2); the model
\* takes the root of each factor, which are exact integers, so that the
\* rounding of a to an integer does not swallow a small h next to a tangency.
HalfChord(cfg, A, d) ==
    LET outer == (cfg.r3 + cfg.r4) * A.q * (cfg.r3 + cfg.r4) * A.q - A.d2
        inner == A.d2 - (cfg.r3 - cfg.r4) * A.q * (cfg.r3 - cfg.r4) * A.q
    IN  RoundDiv(Sqrt(Max(0, outer)) * Sqrt(Max(0, inner)), 2 * d)

\* Joint B: the foot point (x2, y2) on the line of centres and the one of the
\* two intersections (x3_1, y3_1), (x3_2, y3_2) the assembly mode selects.
JointB(A, d, a, h, mode) ==
    LET x2 == A.Ax + RoundDiv(a * (A.Bsx - A.Ax), d)
        y2 == A.Ay + RoundDiv(a * (0 - A.Ay), d)
        x3_1 == x2 + RoundDiv(h * (0 - A.Ay), d)
        y3_1 == y2 - RoundDiv(h * (A.Bsx - A.Ax), d)
        x3_2 == x2 - RoundDiv(h * (0 - A.Ay), d)
        y3_2 == y2 + RoundDiv(h * (A.Bsx - A.Ax), d)
    IN  [x |-> SelectBranch(mode, x3_1, x3_2),
         y |-> SelectBranch(mode, y3_1, y3_2)]

\* Point C: A plus r6 along theta3 + beta; NaN when r6 or beta is.
CouplerPoint(cfg, A, theta3) ==
    IF IsNaN(cfg.r6) \/ IsNaN(cfg.beta) THEN [x |-> NaN, y |-> NaN]
    ELSE Bind(CosSin(theta3 + cfg.beta),
              LAMBDA v :
                [x |-> A.Ax + RoundDiv(cfg.r6 * A.q * v[1], v[3]),
                 y |-> A.Ay + RoundDiv(cfg.r6 * A.q * v[2], v[3])])

\* The pose returned for a valid assembly.
ValidPose(cfg, A, B, theta3, theta4, mode) ==
    Bind(CouplerPoint(cfg, A, theta3),
         LAMBDA C :
           [Ax |-> ToOut(A.Ax, A.q), Ay |-> ToOut(A.Ay, A.q),
            Bx |-> ToOut(B.x, A.q), By |-> ToOut(B.y, A.q),
            Cx |-> ToOut(C.x, A.q), Cy |-> ToOut(C.y, A.q),
            theta3 |-> theta3,
            theta4 |-> theta4,
            isValid |-> TRUE, mode |-> ModeName(mode)])

\* The part of solveLinkage after the assembly check.
Intersect(cfg, A, mode) ==
    Bind(Sqrt(A.d2), LAMBDA d :
    Bind(FootDistance(cfg, A, d), LAMBDA a :
    Bind(HalfChord(cfg, A, d), LAMBDA h :
    Bind(JointB(A, d, a, h, mode), LAMBDA B :
    Bind(Atan2Deg(B.y - A.Ay, B.x - A.Ax), LAMBDA theta3 :
         ValidPose(cfg, A, B, theta3, Atan2Deg(B.y - 0, B.x - A.Bsx),
                   mode))))))

\* The same part when d is the residue alone (Ax = r1 and r3 = r4): a = d / 2,
\* h = r3 and (0 - Ay) / d = -res, so B is r3 to the side of A the mode
\* selects, By = Ay / 2, and the two angles are the atan2 of a residue over
\* r3 or -r3.
GrazingPose(cfg, A, mode) ==
    Bind(SelectBranch(mode, -A.res, A.res), LAMBDA side :
         ValidPose(cfg, A, [x |-> A.Ax + side * cfg.r3 * A.q, y |-> 0],
                   IF side > 0 THEN 0 ELSE (IF A.res < 0 THEN 180 ELSE -180),
                   IF side > 0 THEN 0 ELSE (IF A.res < 0 THEN -180 ELSE 180),
                   mode))

solveLinkage(cfg, mode) ==
    Bind(cfg, LAMBDA c :
    Bind(CrankJoint(c), LAMBDA A :
         IF AssemblyBroken(A, c.r3, c.r4) THEN BrokenPose(A, mode)
         ELSE IF IsNaN(A.d2) \/ IsNaN(c.r3) \/ IsNaN(c.r4)
         THEN UndefinedPose(A, mode)
         ELSE IF Grazing(A) THEN GrazingPose(c, A, mode)
         ELSE Intersect(c, A, mode)))

---------------------------------------------------------------------------
(* utils/math: computeTrajectory *)

\* The loop's bounds: for (let t2 = 0; t2 <= 360; t2 += 2).
FirstSample == 0
LastSample == 360
SampleStep == 2

\* The config passed on as it is.
KeepTheta2(cfg, t) == cfg

\* { ...config, theta2: t2 }
WithTheta2(cfg, t) == [cfg EXCEPT !.theta2 = t]

\* A point that carries the pose but not the angle.
PointWithoutAngle(t, sol) ==
    [theta2 |-> 0, theta3 |-> sol.theta3, theta4 |-> sol.theta4,
     Cx |-> sol.Cx, Cy |-> sol.Cy]

\* What data.push adds for a valid pose.
TrajectoryPoint(t, sol) ==
    [theta2 |-> t, theta3 |-> sol.theta3, theta4 |-> sol.theta4,
     Cx |-> sol.Cx, Cy |-> sol.Cy]

\* Every pose kept.
KeepAll(sol) == TRUE

\* if (sol.isValid) data.push({...})
KeepSample(sol) == sol.isValid

\* The sampled driver angles, in the order the loop visits them.
SampleAngles ==
    [i \in 1..((LastSample - FirstSample) \div SampleStep + 1) |->
        FirstSample + (i - 1) * SampleStep]

\* The returned array: the loop calls solveLinkage once for every sampled
\* angle, in order, and pushes a point for every valid pose.
computeTrajectory(cfg, mode) ==
    Bind(SelectSeq([i \in DOMAIN SampleAngles |->
                      [t |-> SampleAngles[i],
                       sol |-> solveLinkage(WithTheta2(cfg, SampleAngles[i]),
                                            mode)]],
                   LAMBDA e : KeepSample(e.sol)),
         LAMBDA kept :
           [i \in 1..Len(kept) |-> TrajectoryPoint(kept[i].t, kept[i].sol)])

---------------------------------------------------------------------------
(* App: the initial config *)

ConfigKeys == {"r1", "r2", "r3", "r4", "r6", "beta", "theta2"}

\* The defaults of getFloat: 1, 2, 3.5, 4, sqrt(5), atan(0.5) in degrees, 0;
\* lengths in quarter units (sqrt(5) is 8.94 quarter units), beta on the
\* angle grid (26.57 degrees).
DefaultConfig ==
    [r1 |-> 4, r2 |-> 8, r3 |-> 14, r4 |-> 16, r6 |-> 9, beta |-> 26,
     theta2 |-> 0]

\* A search parameter as params.get(key) returns it: null when the key is
\* absent, else its text, which is empty, the text of a number, or other text.
Absent == [kind |-> "absent", value |-> 0]
EmptyText == [kind |-> "empty", value |-> 0]
OtherText == [kind |-> "text", value |-> 0]
NumberText(n) == [kind |-> "number", value |-> n]

\* parseFloat(val) on a non-empty text.
parseFloat(val) == IF val.kind = "number" THEN val.value ELSE NaN

\* return val ? parseFloat(val) : def  (null and '' are falsy)
getFloat(prm, key, def) ==
    LET val == prm[key]
    IN  IF val.kind \notin {"absent", "empty"} THEN parseFloat(val) ELSE def

initialConfig(prm) ==
    [k \in ConfigKeys |-> getFloat(prm, k, DefaultConfig[k])]

NoParams == [k \in ConfigKeys |-> Absent]

---------------------------------------------------------------------------
(* SolutionTable *)

\* const testAngles = [0, 90, 180, -90]
testAngles == <<0, 90, 180, -90>>

\* const normalizedAngle = angle < 0 ? 360 + angle : angle
normalizedAngle(angle) == IF angle < 0 THEN 360 + angle ELSE angle

\* A table cell: x.toFixed(2), the text of x with two decimals ('NaN' for
\* NaN), or the text 'N/A'.
toFixed2(x) ==
    IF IsNaN(x) THEN [text |-> "NaN", units |-> 0, hundredths |-> 0]
    ELSE [text |-> "number", units |-> x, hundredths |-> 0]
NotAvailable == [text |-> "N/A", units |-> 0, hundredths |-> 0]

\* The config of the row's solveLinkage call, with the current theta2 left in.
RowConfigAsIs(cfg, angle) == cfg

\* { ...config, theta2: normalizedAngle }
RowConfig(cfg, angle) == [cfg EXCEPT !.theta2 = normalizedAngle(angle)]

\* One entry of results.
TableRow(cfg, mode, angle) ==
    Bind(solveLinkage(RowConfig(cfg, angle), mode), LAMBDA sol :
         [angle |-> angle,
          theta2 |-> normalizedAngle(angle),
          theta3 |-> IF sol.isValid THEN toFixed2(sol.theta3) ELSE NotAvailable,
          theta4 |-> IF sol.isValid THEN toFixed2(sol.theta4) ELSE NotAvailable,
          isValid |-> sol.isValid])

\* results = testAngles.map(...)
SolutionTable(cfg, mode) ==
    [i \in DOMAIN testAngles |-> TableRow(cfg, mode, testAngles[i])]

---------------------------------------------------------------------------
(* App: state, render and events *)

Modes == {1, -1}

\* A dependency list without beta.
TrajectoryDepsNoBeta(cfg, mode) ==
    <<cfg.r1, cfg.r2, cfg.r3, cfg.r4, cfg.r6, mode>>

\* The dependency list of the trajectory memo.
TrajectoryDeps(cfg, mode) ==
    <<cfg.r1, cfg.r2, cfg.r3, cfg.r4, cfg.r6, cfg.beta, mode>>

\* A memo that recomputes whenever the config or the mode changed.
ConfigChanged(cfg, mode, newCfg, newMode) == newCfg # cfg \/ newMode # mode

\* useMemo compares every dependency with the one of the last render.
DepsChanged(cfg, mode, newCfg, newMode) ==
    TrajectoryDeps(newCfg, newMode) # TrajectoryDeps(cfg, mode)

\* The render that follows a state update: both memos, and the solution table
\* with the new props.
Render(newCfg, newMode) ==
    /\ solution' = solveLinkage(newCfg, newMode)
    /\ table' = SolutionTable(newCfg, newMode)
    /\ recomputed' = DepsChanged(config, assemblyMode, newCfg, newMode)
    /\ trajectory' = IF DepsChanged(config, assemblyMode, newCfg, newMode)
                     THEN computeTrajectory(newCfg, newMode)
                     ELSE trajectory

\* if (requestRef.current) cancelAnimationFrame(requestRef.current): the
\* number of callbacks left pending; cancelling an id that has fired or been
\* cancelled does nothing.
AfterCancel == IF refLive THEN request - 1 ELSE request

\* The effect on [isPlaying, animationSpeed] without the cleanup of the
\* previous run.
PlaybackEffectNoCleanup(playing) ==
    /\ request' = IF playing THEN request + 1 ELSE AfterCancel
    /\ refLive' = playing
    /\ lastTime' = (playing /\ lastTime)

\* The effect on [isPlaying, animationSpeed] without lastTimeRef.current =
\* undefined in its paused branch.
PlaybackEffectKeepTime(playing) ==
    /\ request' = IF playing THEN AfterCancel + 1 ELSE AfterCancel
    /\ refLive' = playing
    /\ lastTime' = lastTime

\* The effect on [isPlaying, animationSpeed]: the cleanup of the previous run
\* cancels the callback of requestRef, then the effect requests a callback
\* when playing, and clears lastTimeRef and cancels again when not.
PlaybackEffect(playing) ==
    /\ request' = IF playing THEN AfterCancel + 1 ELSE AfterCancel
    /\ refLive' = playing
    /\ lastTime' = (playing /\ lastTime)

\* The model follows the sessions in which at most this many geometry fields
\* are away from their defaults at a time.
MaxGeometryEdits == 1

GeometryEdits(cfg) ==
    Cardinality({k \in ConfigKeys \ {"theta2"} : cfg[k] # DefaultConfig[k]})

\* What the controls of the panel are set to in the model.
EditValues(key) ==
    CASE key = "r1" -> {4, 8}
      [] key = "r2" -> {8, 4}
      [] key = "r3" -> {14, 12}
      [] key = "r4" -> {16, NaN}
      [] key = "r6" -> {9, 0}
      [] key = "beta" -> {26, 90}
      [] key = "theta2" -> {0, 180}

SpeedValues == {10, 20}

\* The time between two frames, in ms.
FrameTimes == {3000}

\* ControlPanel.updateConfig(key, val): onChange({ ...config, [key]: val })
\* with the config of the last render; the new object replaces the state,
\* updates queued before it included.
EditField(key, val) ==
    /\ val # config[key]
    /\ config' = [config EXCEPT ![key] = val]
    /\ GeometryEdits(config') <= MaxGeometryEdits
    /\ queue' = <<>>
    /\ Render(config', assemblyMode)
    /\ UNCHANGED <<assemblyMode, isPlaying, animationSpeed, lastTime, request,
                   refLive, params, pc, t2, data, calls, lastCall>>

\* An updater that sets the crossed mode whatever the mode was.
ToggleToCrossed(m) == -1

\* The updater of onToggleMode: m => m === 1 ? -1 : 1
Toggled(m) == IF m = 1 THEN -1 ELSE 1

\* onToggleMode: setAssemblyMode(m => m === 1 ? -1 : 1)
ToggleMode ==
    /\ assemblyMode' = Toggled(assemblyMode)
    /\ Render(config, assemblyMode')
    /\ UNCHANGED <<config, isPlaying, animationSpeed, lastTime, request,
                   refLive, queue, params, pc, t2, data, calls, lastCall>>

\* onTogglePlay: setIsPlaying(!isPlaying), then the effect.
TogglePlay ==
    /\ isPlaying' = ~isPlaying
    /\ PlaybackEffect(isPlaying')
    /\ Render(config, assemblyMode)
    /\ UNCHANGED <<config, assemblyMode, animationSpeed, params, pc, t2, data,
                   calls, lastCall, queue>>

\* setAnimationSpeed(speed), then the effect.
SetSpeed(v) ==
    /\ v # animationSpeed
    /\ animationSpeed' = v
    /\ PlaybackEffect(isPlaying)
    /\ Render(config, assemblyMode)
    /\ UNCHANGED <<config, assemblyMode, isPlaying, params, pc, t2, data,
                   calls, lastCall, queue>>

\* newTheta of animate: prev.theta2 + 0.06 * animationSpeed * deltaTime, less
\* 360 when it reaches 360; the speed is counted in tenths.
NextTheta(theta2, speed, deltaTime) ==
    LET newTheta == theta2 + RoundDiv(6 * speed * deltaTime, 1000)
    IN  IF newTheta >= 360 THEN newTheta - 360 ELSE newTheta

\* An updater that builds the config anew instead of spreading prev.
AdvanceFromDefault(prev, speed, deltaTime) ==
    [DefaultConfig EXCEPT !.theta2 = NextTheta(prev.theta2, speed, deltaTime)]

\* The updater animate passes to setConfig: { ...prev, theta2: newTheta }.
Advance(prev, speed, deltaTime) ==
    [prev EXCEPT !.theta2 = NextTheta(@, speed, deltaTime)]

\* animate(time): a pending callback fires and requests the next one; React
\* renders the update before any other event.
AnimationFrame(deltaTime) ==
    /\ request > 0
    /\ config' = IF lastTime
                 THEN Advance(config, animationSpeed, deltaTime)
                 ELSE config
    /\ lastTime' = TRUE
    /\ request' = request
    /\ refLive' = TRUE
    /\ Render(config', assemblyMode)
    /\ UNCHANGED <<assemblyMode, isPlaying, animationSpeed, queue, params, pc,
                   t2, data, calls, lastCall>>

\* The state after the first render of a page loaded without parameters.
Init ==
    /\ params = NoParams
    /\ config = initialConfig(params)
    /\ assemblyMode = 1
    /\ isPlaying = FALSE
    /\ animationSpeed = 10
    /\ lastTime = FALSE
    /\ request = 0
    /\ refLive = FALSE
    /\ queue = <<>>
    /\ solution = solveLinkage(config, assemblyMode)
    /\ trajectory = computeTrajectory(config, assemblyMode)
    /\ recomputed = TRUE
    /\ table = SolutionTable(config, assemblyMode)
    /\ pc = "idle"
    /\ t2 = 0
    /\ data = <<>>
    /\ calls = 0
    /\ lastCall = [cfg |-> config, mode |-> assemblyMode]

Next ==
    \/ \E key \in ConfigKeys : \E val \in EditValues(key) : EditField(key, val)
    \/ ToggleMode
    \/ TogglePlay
    \/ \E v \in SpeedValues : SetSpeed(v)
    \/ \E deltaTime \in FrameTimes : AnimationFrame(deltaTime)

Spec == Init /\ [][Next]_vars

----------------------------------------------------------------------------
(* App with React's batching: setConfig in animate queues the updater, and
   the render that applies it is a step of its own, so an input event can
   come between the two. *)

\* The model lets at most this many updaters wait for a render.
MaxPendingTicks == 1

\* The model stops firing frames once theta2 has reached this many degrees.
MaxTheta2 == 720

\* Speeds of the slider (0.1 .. 5), in tenths, and the fields edited, in the
\* sessions with batching.
FastSpeeds == {10, 30}
BatchedEdits == {"r1", "theta2"}

RECURSIVE ApplyUpdates(_, _)
\* The state React computes from a base state and its queued updaters, oldest
\* first.
ApplyUpdates(cfg, updates) ==
    IF updates = <<>> THEN cfg
    ELSE ApplyUpdates(Advance(cfg, Head(updates).speed,
                              Head(updates).deltaTime),
                      Tail(updates))

\* The config of the app state: the rendered one with the queued updaters
\* applied.
CurrentConfig == ApplyUpdates(config, queue)

\* animate(time): the callback queues its updater, stores the time and
\* requests the next frame; nothing is rendered yet.
AnimateCallback(deltaTime) ==
    /\ request > 0
    /\ Len(queue) < MaxPendingTicks
    /\ CurrentConfig.theta2 < MaxTheta2
    /\ queue' = IF lastTime
                THEN Append(queue, [speed |-> animationSpeed,
                                    deltaTime |-> deltaTime])
                ELSE queue
    /\ lastTime' = TRUE
    /\ request' = request
    /\ refLive' = TRUE
    /\ UNCHANGED <<config, assemblyMode, isPlaying, animationSpeed, solution,
                   trajectory, recomputed, table, params, pc, t2, data, calls,
                   lastCall>>

\* React renders App with the queued updaters applied.
RenderQueued ==
    /\ queue # <<>>
    /\ config' = CurrentConfig
    /\ queue' = <<>>
    /\ Render(config', assemblyMode)
    /\ UNCHANGED <<assemblyMode, isPlaying, animationSpeed, lastTime, request,
                   refLive, params, pc, t2, data, calls, lastCall>>

BatchedNext ==
    \/ \E key \in BatchedEdits : \E val \in EditValues(key) :
            EditField(key, val)
    \/ TogglePlay
    \/ \E v \in FastSpeeds : SetSpeed(v)
    \/ \E deltaTime \in FrameTimes : AnimateCallback(deltaTime)
    \/ RenderQueued

BatchedSpec == Init /\ [][BatchedNext]_vars

---------------------------------------------------------------------------
(* The solver and the sampler on their own: computeTrajectory run statement
   by statement over a bounded set of configs. *)

\* Ground lengths 1 .. MaxGround units.
MaxGround == 4

CoreConfigs ==
    {[DefaultConfig EXCEPT !.theta2 = t] : t \in {0, 90}}
    \cup {[r1 |-> 4 * g, r2 |-> 4 * c, r3 |-> 4 * k, r4 |-> 4 * o,
           r6 |-> 9, beta |-> 26, theta2 |-> 0] :
            g \in 1..MaxGround, c \in {1, 2}, k \in {1, 2, 3}, o \in {1, 2, 3}}

\* computeTrajectory(config, assemblyMode) is called: const data = [], t2 = 0;
\* no solveLinkage call of this run has been made yet.
CallSampler(cfg, mode) ==
    /\ pc \in {"idle", "done"}
    /\ config' = cfg
    /\ assemblyMode' = mode
    /\ pc' = "loop"
    /\ t2' = FirstSample
    /\ data' = <<>>
    /\ calls' = 0
    /\ lastCall' = [cfg |-> DefaultConfig, mode |-> 1]
    /\ solution' = solveLinkage(DefaultConfig, 1)
    /\ UNCHANGED <<isPlaying, animationSpeed, lastTime, request, refLive,
                   queue, trajectory, recomputed, params, table>>

\* One pass of the loop body.
LoopStep ==
    /\ pc = "loop"
    /\ t2 <= LastSample
    /\ lastCall' = [cfg |-> WithTheta2(config, t2), mode |-> assemblyMode]
    /\ solution' = solveLinkage(lastCall'.cfg, lastCall'.mode)
    /\ data' = IF KeepSample(solution')
               THEN Append(data, TrajectoryPoint(t2, solution'))
               ELSE data
    /\ t2' = t2 + SampleStep
    /\ calls' = calls + 1
    /\ UNCHANGED <<config, assemblyMode, isPlaying, animationSpeed, lastTime,
                   request, refLive, queue, trajectory, recomputed, params,
                   pc, table>>

\* The loop condition fails: return data.
LoopExit ==
    /\ pc = "loop"
    /\ t2 > LastSample
    /\ pc' = "done"
    /\ UNCHANGED <<config, assemblyMode, isPlaying, animationSpeed, lastTime,
                   request, refLive, queue, solution, trajectory, recomputed,
                   params, t2, data, calls, lastCall, table>>

CoreInit ==
    /\ params = NoParams
    /\ config = DefaultConfig
    /\ assemblyMode = 1
    /\ isPlaying = FALSE
    /\ animationSpeed = 10
    /\ lastTime = FALSE
    /\ request = 0
    /\ refLive = FALSE
    /\ queue = <<>>
    /\ solution = solveLinkage(config, assemblyMode)
    /\ trajectory = <<>>
    /\ recomputed = FALSE
    /\ table = <<>>
    /\ pc = "idle"
    /\ t2 = 0
    /\ data = <<>>
    /\ calls = 0
    /\ lastCall = [cfg |-> config, mode |-> assemblyMode]

CoreNext ==
    \/ \E cfg \in CoreConfigs : \E mode \in Modes : CallSampler(cfg, mode)
    \/ LoopStep
    \/ LoopExit

CoreSpec == CoreInit /\ [][CoreNext]_vars

---------------------------------------------------------------------------
(* Page loads: the initialiser of the config state, for every combination of
   search parameters. *)

ParamTexts == {Absent, EmptyText, OtherText, NumberText(6)}

\* The page is opened with some search parameters; the config state is not
\* initialised yet (the model holds the defaults in its place).
UrlInit ==
    /\ params \in [ConfigKeys -> ParamTexts]
    /\ config = DefaultConfig
    /\ assemblyMode = 1
    /\ isPlaying = FALSE
    /\ animationSpeed = 10
    /\ lastTime = FALSE
    /\ request = 0
    /\ refLive = FALSE
    /\ queue = <<>>
    /\ solution = solveLinkage(config, assemblyMode)
    /\ trajectory = <<>>
    /\ recomputed = FALSE
    /\ table = <<>>
    /\ pc = "url"
    /\ t2 = 0
    /\ data = <<>>
    /\ calls = 0
    /\ lastCall = [cfg |-> config, mode |-> assemblyMode]

\* useState<LinkageConfig>(initialConfig): the initialiser runs.
UseInitialConfig ==
    /\ pc = "url"
    /\ config' = initialConfig(params)
    /\ pc' = "idle"
    /\ UNCHANGED <<assemblyMode, isPlaying, animationSpeed, lastTime, request,
                   refLive, queue, solution, trajectory, recomputed, params,
                   t2, data, calls, lastCall, table>>

UrlNext == UseInitialConfig

UrlSpec == UrlInit /\ [][UrlNext]_vars

---------------------------------------------------------------------------
(* Properties of solveLinkage, over the calls the sampler makes *)

\* The config and the mode of the last solveLinkage call, whose pose is in
\* solution.
Called == lastCall.cfg
CalledJoint == CrankJoint(lastCall.cfg)

\* C1: solveLinkage returns isValid = true exactly when d > 0 and
\* |r3 - r4| <= d <= r3 + r4, d being the distance from A to (r1, 0); the
\* bounds are compared as squares, and d > 0 also where only the residue of
\* Math.sin keeps A off the pivot.
C1_ValidIffInReach ==
    LET A == CalledJoint
        lo == Abs(Called.r3 - Called.r4) * A.q
        hi == (Called.r3 + Called.r4) * A.q
    IN  solution.isValid
          <=> /\ (A.d2 > 0 \/ A.res # 0)
              /\ lo * lo <= A.d2
              /\ A.d2 <= hi * hi

\* A on the second pivot with r3 = r4: reported invalid.
C1_OnPivot ==
    /\ calls > 0
    /\ CalledJoint.d2 = 0 /\ CalledJoint.res = 0
    /\ Called.r3 = Called.r4
    /\ ~solution.isValid

\* C2 as stated: in an invalid pose all of Ax, Ay, Bx, By, Cx, Cy, theta3 and
\* theta4 are NaN.
C2_AllFieldsNaN ==
    ~solution.isValid =>
        \A f \in {"Ax", "Ay", "Bx", "By", "Cx", "Cy", "theta3", "theta4"} :
            IsNaN(solution[f])

\* C2, amended: in an invalid pose Bx, By, Cx, Cy, theta3 and theta4 are NaN,
\* while Ax and Ay hold joint A = r2 * (cos theta2, sin theta2).
C2_JointAKept ==
    LET u == CosSin(Called.theta2)
    IN  ~solution.isValid =>
          /\ \A f \in {"Bx", "By", "Cx", "Cy", "theta3", "theta4"} :
                IsNaN(solution[f])
          /\ solution.Ax = RoundDiv(Called.r2 * u[1] * 1000, u[3])
          /\ solution.Ay = RoundDiv(Called.r2 * u[2] * 1000, u[3])
          /\ ~IsNaN(solution.Ax) /\ ~IsNaN(solution.Ay)

\* An invalid pose of a call with the crank off the x axis.
C2_BrokenOffAxis ==
    /\ calls > 0
    /\ ~solution.isValid
    /\ solution.Ay > 0

---------------------------------------------------------------------------
(* Properties of computeTrajectory, over its runs *)

\* The driver angles 0, 2, ..., 360.
Sampled == {2 * k : k \in 0..180}

\* The entries of the array built so far whose theta2 is t.
EntriesAt(t) == {i \in DOMAIN data : data[i].theta2 = t}

\* C3: the returned array has an entry with theta2 = t, t in 0, 2, ..., 360,
\* exactly when solveLinkage({...config, theta2: t}, mode) is valid; the entry
\* carries that pose's theta3, theta4, Cx and Cy; no other entry exists, so
\* the length is at most 181.
C3_EntryIffValid ==
    pc = "done" =>
        /\ \A t \in Sampled :
             LET sol == solveLinkage([config EXCEPT !.theta2 = t], assemblyMode)
             IN  /\ EntriesAt(t) # {} <=> sol.isValid
                 /\ \A i \in EntriesAt(t) :
                      data[i] = [theta2 |-> t, theta3 |-> sol.theta3,
                                 theta4 |-> sol.theta4,
                                 Cx |-> sol.Cx, Cy |-> sol.Cy]
        /\ \A i \in DOMAIN data : data[i].theta2 \in Sampled
        /\ \A i \in DOMAIN data :
             ~IsNaN(data[i].theta3) /\ ~IsNaN(data[i].Cx)
        /\ Len(data) <= 181

\* A finished run that dropped some angles and kept others.
C3_SweepWithGaps ==
    /\ pc = "done"
    /\ Len(data) > 0
    /\ Len(data) < 181

\* C4: computeTrajectory calls the solver exactly 181 times, once for each of
\* 0, 2, ..., 360 in turn, with theta2 replaced by the sampled angle and the
\* other fields and the mode as given; the result is the same whatever theta2
\* the given config holds.
C4_OneCallPerAngle ==
    /\ pc \in {"loop", "done"} =>
          /\ 2 * calls = t2
          /\ calls > 0 =>
                /\ lastCall.cfg = [config EXCEPT !.theta2 = t2 - 2]
                /\ lastCall.mode = assemblyMode
    /\ pc = "done" =>
          /\ calls = 181
          /\ \A t \in {0, 90, 360} :
                computeTrajectory([config EXCEPT !.theta2 = t], assemblyMode)
                  = data

\* A finished run on a config whose own theta2 is not 0.
C4_SweepFromQuarterTurn ==
    /\ pc = "done"
    /\ config.theta2 = 90
    /\ calls = 181
    /\ Len(data) = 181

\* C5: the theta2 values of the array are strictly increasing from one entry
\* to the next.
C5_Theta2Increasing ==
    \A i \in DOMAIN data :
        i + 1 \in DOMAIN data => data[i].theta2 < data[i + 1].theta2

\* A finished run whose array skips over dropped angles.
C5_GapBetweenEntries ==
    /\ pc = "done"
    /\ \E i \in DOMAIN data :
          i + 1 \in DOMAIN data /\ data[i + 1].theta2 > data[i].theta2 + 2

---------------------------------------------------------------------------
(* Geometry classes *)

\* The four link lengths of a config.
Links(cfg) == <<cfg.r1, cfg.r2, cfg.r3, cfg.r4>>

Shortest(cfg) ==
    CHOOSE x \in {Links(cfg)[i] : i \in 1..4} :
        \A i \in 1..4 : x <= Links(cfg)[i]

Longest(cfg) ==
    CHOOSE x \in {Links(cfg)[i] : i \in 1..4} :
        \A i \in 1..4 : x >= Links(cfg)[i]

\* Positive lengths, shortest + longest <= sum of the other two, and the
\* ground r1 or the crank r2 a shortest link.
GrashofCrank(cfg) ==
    /\ \A i \in 1..4 : Links(cfg)[i] > 0
    /\ 2 * (Shortest(cfg) + Longest(cfg))
         <= cfg.r1 + cfg.r2 + cfg.r3 + cfg.r4
    /\ Shortest(cfg) \in {cfg.r1, cfg.r2}

\* C9 as stated: for a Grashof config with the ground or the crank shortest,
\* every call with theta2 in [0, 360) is valid, and the finished array has all
\* 181 samples.
C9_GrashofAlwaysValid ==
    GrashofCrank(config) =>
        /\ (calls > 0 /\ Called.theta2 < 360) => solution.isValid
        /\ pc = "done" => Len(data) = 181

\* C9, amended: for such a config every call with theta2 in [0, 360) is valid
\* except the one at theta2 = 0 when r1 = r2, where A is on the second pivot;
\* the finished array has all 181 samples when r1 # r2, and all but the one
\* at theta2 = 0 when r1 = r2.
C9_GrashofValidOffPivot ==
    GrashofCrank(config) =>
        /\ (calls > 0 /\ Called.theta2 < 360) =>
              (solution.isValid
                 <=> ~(Called.theta2 = 0 /\ config.r1 = config.r2))
        /\ pc = "done" =>
              /\ config.r1 # config.r2 => Len(data) = 181
              /\ config.r1 = config.r2 =>
                    /\ Len(data) = 180
                    /\ \A i \in DOMAIN data : data[i].theta2 # 0

\* A finished run on a Grashof config with r1 = r2.
C9_EqualGroundAndCrank ==
    /\ pc = "done"
    /\ GrashofCrank(config)
    /\ config.r1 = config.r2
    /\ Len(data) = 180

\* C10: with r3 + r4 < r1 - r2 every call is invalid, in both modes, and the
\* finished array is empty; for every config the two modes agree on isValid.
C10_OutOfReach ==
    /\ (config.r3 + config.r4 < config.r1 - config.r2) =>
          /\ calls > 0 =>
                /\ ~solution.isValid
                /\ \A mode \in Modes : ~solveLinkage(Called, mode).isValid
          /\ pc = "done" => (data = <<>> /\ calls = 181)
    /\ calls > 0 =>
          \A mode \in Modes : solveLinkage(Called, mode).isValid
                                = solution.isValid

\* A finished run on a config whose coupler and rocker cannot reach the crank.
C10_EmptySweep ==
    /\ pc = "done"
    /\ config.r3 + config.r4 < config.r1 - config.r2
    /\ data = <<>>
    /\ calls = 181

---------------------------------------------------------------------------
(* Properties of the App's memos *)

\* C6: after any sequence of edits, mode toggles, animation frames and
\* play/pause, the memoized trajectory equals what computeTrajectory returns
\* for the current config and mode.
C6_MemoNeverStale ==
    trajectory = computeTrajectory(config, assemblyMode)

\* The memo is reused after the driver angle moved on an edited geometry in
\* the crossed mode.
C6_ReusedAfterEdits ==
    /\ ~recomputed
    /\ config.theta2 # 0
    /\ GeometryEdits(config) > 0
    /\ assemblyMode = -1
    /\ trajectory # <<>>

\* C7: an event that leaves r1, r2, r3, r4, r6, beta and the mode as they were
\* does not call computeTrajectory and leaves the trajectory untouched, and
\* computeTrajectory is called only when one of them changed; the pose is the
\* solver's for the new config after every event.
C7_RecomputeOnlyOnDeps ==
    [][LET same == /\ \A k \in {"r1", "r2", "r3", "r4", "r6", "beta"} :
                        config'[k] = config[k]
                   /\ assemblyMode' = assemblyMode
       IN  /\ same => (~recomputed' /\ trajectory' = trajectory)
           /\ recomputed' => ~same
           /\ solution' = solveLinkage(config', assemblyMode')]_vars

\* The driver angle moved and the last render did not call computeTrajectory.
C7_Theta2MovedAlone ==
    /\ ~recomputed
    /\ config.theta2 = 180
    /\ solution = solveLinkage(config, assemblyMode)
    /\ solution # solveLinkage([config EXCEPT !.theta2 = 0], assemblyMode)

---------------------------------------------------------------------------
(* Properties of the initial config *)

\* C8 as stated: every field of the initial config is the parsed number when
\* its parameter is present and parseable and its default otherwise, and no
\* field is NaN.
C8_DefaultedNeverNaN ==
    pc = "idle" =>
        \A k \in ConfigKeys :
            /\ config[k] = IF params[k].kind = "number"
                           THEN params[k].value ELSE DefaultConfig[k]
            /\ ~IsNaN(config[k])

\* A page opened with a parameter whose text is no number: the field is NaN.
C8_TextBecomesNaN ==
    /\ pc = "idle"
    /\ params.r1 = OtherText
    /\ IsNaN(config.r1)
    /\ \A k \in ConfigKeys \ {"r1"} : params[k] = Absent

---------------------------------------------------------------------------
(* Properties of the pose *)

\* The distance between two points given in thousandths of a quarter unit,
\* in the same unit.
Distance(x1, y1, x2, y2) ==
    Sqrt((x1 - x2) * (x1 - x2) + (y1 - y2) * (y1 - y2))

\* C11: in every valid pose, of either mode, the distance from A to B is r3
\* and the distance from the second pivot (r1, 0) to B is r4, here within 20
\* thousandths of a quarter unit, the resolution of the model's coordinates.
C11_JointBOnBothCircles ==
    (calls > 0 /\ solution.isValid) =>
        /\ Abs(Distance(solution.Bx, solution.By, solution.Ax, solution.Ay)
                 - 1000 * Called.r3) <= 20
        /\ Abs(Distance(solution.Bx, solution.By, 1000 * Called.r1, 0)
                 - 1000 * Called.r4) <= 20

\* A valid crossed pose with B off the line of centres.
C11_CrossedOffAxis ==
    /\ calls > 0
    /\ solution.isValid
    /\ lastCall.mode = -1
    /\ solution.By # 0
    /\ Called.r3 # Called.r4

\* C14: the pose names the requested mode, valid or not: 'open' exactly when
\* assemblyMode is 1 and 'crossed' exactly when it is -1.
C14_ModeEchoed ==
    /\ lastCall.mode \in {1, -1}
    /\ solution.mode = "open" <=> lastCall.mode = 1
    /\ solution.mode = "crossed" <=> lastCall.mode = -1

\* An invalid pose of a call in the crossed mode.
C14_BrokenCrossed ==
    /\ calls > 0
    /\ ~solution.isValid
    /\ lastCall.mode = -1
    /\ solution.mode = "crossed"

\* The pose of the same call in the other mode.
OtherPose == solveLinkage(Called, -lastCall.mode)

\* The direction from A to the second pivot, counted in 1/q of a quarter
\* unit; straight along y where only the residue of Math.sin separates the two.
LineOfCentres ==
    IF Grazing(CalledJoint) THEN <<0, -1000 * CalledJoint.res>>
    ELSE <<CalledJoint.Bsx - CalledJoint.Ax, 0 - CalledJoint.Ay>>

\* d is r3 + r4 or |r3 - r4|.
Tangent ==
    LET A == CalledJoint
    IN  /\ ~Grazing(A)
        /\ \/ A.d2 = (Called.r3 + Called.r4) * A.q * (Called.r3 + Called.r4) * A.q
           \/ A.d2 = (Called.r3 - Called.r4) * A.q * (Called.r3 - Called.r4) * A.q

\* C12: where the pose is valid, the other mode gives a valid pose with the
\* same A, and the two B are mirror images across the line from A to the
\* second pivot: their midpoint is on the line and their difference is square
\* to it (both within 20 thousandths of a quarter unit); the two B are the
\* same point exactly at a tangency.
C12_BranchesMirrored ==
    (calls > 0 /\ solution.isValid) =>
        LET o == OtherPose
            l == LineOfCentres
            len == Distance(l[1], l[2], 0, 0)
            mx == solution.Bx + o.Bx - 2 * solution.Ax
            my == solution.By + o.By - 2 * solution.Ay
            cx == solution.Bx - o.Bx
            cy == solution.By - o.By
        IN  /\ o.isValid
            /\ o.Ax = solution.Ax /\ o.Ay = solution.Ay
            /\ Abs(mx * l[2] - my * l[1]) <= 2 * 20 * len
            /\ Abs(cx * l[1] + cy * l[2]) <= 20 * len
            /\ (o.Bx = solution.Bx /\ o.By = solution.By) <=> Tangent

\* A valid pose at a tangency, where the two branches meet.
C12_BranchesMeet ==
    /\ calls > 0
    /\ solution.isValid
    /\ Tangent
    /\ OtherPose.Bx = solution.Bx /\ OtherPose.By = solution.By

---------------------------------------------------------------------------
(* Properties of the solution table *)

\* C13: the table has four rows, for the driver angles 0, 90, 180 and 270,
\* each from solveLinkage on the current geometry and mode with theta2 set to
\* the row's angle, whatever config.theta2 is; a row shows the pose's theta3
\* and theta4 when the pose is valid and 'N/A' for both otherwise.
C13_TableAtFixedAngles ==
    /\ DOMAIN table = 1..4
    /\ \A i \in 1..4 :
         LET t == <<0, 90, 180, 270>>[i]
             sol == solveLinkage([config EXCEPT !.theta2 = t], assemblyMode)
             row == table[i]
         IN  /\ row.theta2 = t
             /\ row.isValid = sol.isValid
             /\ sol.isValid =>
                   /\ row.theta3.text # "N/A" /\ row.theta4.text # "N/A"
                   /\ row.theta3.text = "number" => row.theta3.units = sol.theta3
                   /\ row.theta4.text = "number" => row.theta4.units = sol.theta4
                   /\ row.theta3.text = "number" <=> ~IsNaN(sol.theta3)
             /\ ~sol.isValid =>
                   row.theta3.text = "N/A" /\ row.theta4.text = "N/A"

\* The driver angle is away from every row's angle, one row is 'N/A' and
\* another shows angles.
C13_MixedTable ==
    /\ config.theta2 = 180
    /\ assemblyMode = -1
    /\ \E i \in DOMAIN table : table[i].theta3.text = "N/A"
    /\ \E i \in DOMAIN table : table[i].theta3.text = "number"

----------------------------------------------------------------------------
(* C16: what the control panel lets into the config *)

\* C16: after any sequence of control panel edits the config of the app state
\* has no NaN field, r1, r2, r3 and r4 above 0 and r6 at least 0.
C16_ConfigWellFormed ==
    /\ \A k \in ConfigKeys : ~IsNaN(config[k])
    /\ \A k \in {"r1", "r2", "r3", "r4"} : config[k] > 0
    /\ config.r6 >= 0

\* An emptied number field has put NaN into the config, and the solver has
\* returned a pose it calls valid with NaN for joint B.
C16_NaNReachesSolver ==
    /\ IsNaN(config.r4)
    /\ solution.isValid
    /\ IsNaN(solution.Bx)

----------------------------------------------------------------------------
(* C18, C19, C20: the animation loop *)

\* A step of the animation loop: a pending callback fires.
Tick == \E deltaTime \in FrameTimes : AnimationFrame(deltaTime)

\* C18: in every reachable state at most one animation frame callback is
\* pending, and while playback is paused none is, so that no tick can fire
\* and change theta2 before playback is resumed.
C18_OneCallbackPending ==
    /\ request \in {0, 1}
    /\ ~isPlaying => request = 0 /\ ~refLive

\* Playback runs at a speed other than the initial one, frames have fired, and
\* one callback is pending.
C18_PlayingAfterSpeedChange ==
    /\ isPlaying
    /\ lastTime
    /\ animationSpeed # 10
    /\ request = 1

\* C19: starting or resuming playback leaves the last frame time cleared, the
\* frame that fires with it cleared does not change theta2, and every later
\* frame advances theta2 by 0.06 * animationSpeed * deltaTime degrees (less a
\* turn when that reaches 360).
C19_FirstFrameNoAdvance ==
    [][/\ (~isPlaying /\ isPlaying') => ~lastTime'
       /\ (Tick /\ ~lastTime) => config'.theta2 = config.theta2
       /\ (Tick /\ lastTime) =>
            \E deltaTime \in FrameTimes :
                LET newTheta == config.theta2
                                + (6 * animationSpeed * deltaTime) \div 1000
                IN  config'.theta2 \in {newTheta, newTheta - 360}]_vars

\* Playback has just been started or resumed with theta2 away from its
\* initial value: the last frame time is cleared and the first frame is
\* pending.
C19_ResumedFirstFrame ==
    /\ isPlaying
    /\ ~lastTime
    /\ request = 1
    /\ config.theta2 = 180

\* C20: a tick changes no field of the config but theta2, and leaves the
\* assembly mode, the playing flag and the animation speed as they were.
C20_TickChangesOnlyTheta2 ==
    [][Tick => /\ \A k \in ConfigKeys \ {"theta2"} : config'[k] = config[k]
               /\ UNCHANGED <<assemblyMode, isPlaying, animationSpeed>>]_vars

\* A tick has advanced theta2 in a config whose geometry was edited.
C20_TickAfterEdit ==
    /\ isPlaying
    /\ lastTime
    /\ config.r1 # DefaultConfig.r1
    /\ config.theta2 # DefaultConfig.theta2

----------------------------------------------------------------------------
(* C15: the range of theta2 under the animation *)

InRange(theta2) == theta2 >= 0 /\ theta2 < 360

\* C15: a render that applies animation ticks to a theta2 in [0, 360) leaves
\* theta2 in [0, 360).
C15_TickKeepsRange ==
    [][(RenderQueued /\ InRange(config.theta2)) => InRange(config'.theta2)]_vars

\* Playback has carried theta2 to a full turn or past it.
C15_Theta2PastTurn ==
    /\ isPlaying
    /\ config.theta2 >= 360

----------------------------------------------------------------------------
(* C17: an edit between a tick and its render *)

\* C17: an edit of one field leaves every other field of the app's config as
\* it was, the theta2 of a tick not yet rendered included.
C17_EditChangesOneField ==
    [][\A key \in BatchedEdits : \A val \in EditValues(key) :
          EditField(key, val) =>
              \A k \in ConfigKeys \ {key} : config'[k] = CurrentConfig[k]]_vars

\* A tick has been applied to the app state and waits for its render while
\* the control panel still shows the config of the last render.
C17_TickAwaitingRender ==
    /\ queue # <<>>
    /\ CurrentConfig.theta2 # config.theta2

----------------------------------------------------------------------------
(* C21: the assembly mode and its toggle *)

\* C21: the assembly mode starts at 1 and is always 1 or -1; two toggles give
\* the mode back; only the mode toggle changes it, and a toggle turns it into
\* the other mode and leaves every config field and the playing flag as they
\* were.
C21_ModeToggleInvolution ==
    /\ assemblyMode = 1
    /\ [](/\ assemblyMode \in {1, -1}
          /\ Toggled(Toggled(assemblyMode)) = assemblyMode)
    /\ [][/\ assemblyMode' # assemblyMode => ToggleMode
          /\ ToggleMode => /\ assemblyMode' = -assemblyMode
                           /\ \A k \in ConfigKeys : config'[k] = config[k]
                           /\ isPlaying' = isPlaying]_vars

\* The mode has been toggled to crossed during playback of an edited linkage,
\* and the pose rendered is the crossed one.
C21_CrossedWhilePlaying ==
    /\ assemblyMode = -1
    /\ solution.mode = "crossed"
    /\ isPlaying
    /\ config.r1 # DefaultConfig.r1

====
